---------------------------- MODULE Spec2Model ----------------------------
(***************************************************************************)
(* vox-timeline: the audio timeline compositor (src/src/core/audio.py),    *)
(* the segment synthesis driver (src/src/pipeline/dubbing.py) and the      *)
(* staged orchestrator (src/src/pipeline/video_translator.py).             *)
(*                                                                         *)
(* Times that the code holds as float seconds are rationals <<num, den>>;  *)
(* times the code holds as int milliseconds are integers.  An audio clip   *)
(* is represented by len(clip), its duration in milliseconds.              *)
(***************************************************************************)
EXTENDS Integers, Sequences, FiniteSets, TLC

(***************************************************************************)
(* Bounds of the model.                                                    *)
(***************************************************************************)
\* most clips put on a timeline driven directly through its API
MaxClips == 2
\* most segments of a script handed to the synthesis driver directly
MaxScript == 3
\* most segments the transcription collaborator returns
MaxSeg == 2
\* most lines the encoder subprocess writes before closing its stream
MaxLines == 2

(***************************************************************************)
(* Program constants.                                                      *)
(***************************************************************************)
\* audio.py:31  min_start_ms = last_end_ms + 50
MIN_GAP_MS == 50
\* audio.py:22  int(start_time * 1000); dubbing.py:84 int(total_duration * 1000)
MS_PER_S == 1000
\* audio.py:73  final_duration_ms = 1000 # 1 sec min safety
MIN_SAFETY_MS == 1000
\* video_translator.py:306  current_sec = out_time_us / 1000000.0
US_PER_S == 1000000
\* audio.py:39  target_duration_ms: int = None
None == -1

(***************************************************************************)
(* Input domains (small, chosen so that every branch of the code is hit).  *)
(***************************************************************************)
\* float seconds as <<numerator, denominator>>
Sec(n, d) == <<n, d>>
\* a float that is None (dubbing.py:37 total_duration: Optional[float] = None)
NoneSec == <<0, 0>>
\* intended starts handed to add_segment: 0 s, 0.01 s, 0.0015 s, 3 s
StartTimes == {Sec(0, 1), Sec(1, 100), Sec(3, 2000), Sec(3, 1)}
\* clip durations in ms returned by the synthesis collaborator
Durations == {0, 2000, 3000}
\* target_duration_ms given to export
Targets == {None, 0, 2000, 3000, 6000}

Max(a, b) == IF a >= b THEN a ELSE b
Min(a, b) == IF a <= b THEN a ELSE b

(***************************************************************************)
(* AudioTimeline (src/src/core/audio.py)                                   *)
(***************************************************************************)
\* round(x * 1000) of a non-negative float x = <<n, d>>: to the nearest
\* integer, a tie to the even one
RoundMs(x) ==
    LET f == (x[1] * 1000) \div x[2]
        r == (x[1] * 1000) % x[2]
    IN  IF 2 * r < x[2] THEN f
        ELSE IF 2 * r > x[2] THEN f + 1
        ELSE IF f % 2 = 0 THEN f ELSE f + 1
\* faulty variant of ToMs: round(x * 1000)
ToMs_Round(x) == RoundMs(x)
\* int(x * 1000) of a non-negative float x = <<n, d>>: truncation
ToMs(x) == (x[1] * MS_PER_S) \div x[2]

\* faulty variant of MinStartMs: the 50 ms buffer is left out
MinStartMs_NoGap(segs) == segs[Len(segs)].start_ms + segs[Len(segs)].len
\* audio.py:27-31  the earliest start allowed after the last placed clip
MinStartMs(segs) == segs[Len(segs)].start_ms + segs[Len(segs)].len + MIN_GAP_MS

\* faulty variant of ResolveStart: the clip is never compared with the last one
ResolveStart_NoShift(segs, start_time, auto_shift) == ToMs(start_time)
\* audio.py:22-35  the start recorded for a new clip
ResolveStart(segs, start_time, auto_shift) ==
    LET start_ms == ToMs(start_time)
    IN  IF auto_shift /\ Len(segs) > 0 /\ start_ms < MinStartMs(segs)
        THEN MinStartMs(segs)
        ELSE start_ms

\* audio.py:10-37  AudioTimeline.add_segment, as a function of self.segments
add_segment(segs, start_time, len, auto_shift) ==
    Append(segs, [start_ms |-> ResolveStart(segs, start_time, auto_shift),
                  len      |-> len])

\* faulty variant of ContentDuration: the end of the clip added last
ContentDuration_LastClip(segs) ==
    IF segs = <<>> THEN 0 ELSE segs[Len(segs)].start_ms + segs[Len(segs)].len
RECURSIVE ContentDuration(_)
\* audio.py:61-65  content_duration_ms: the largest end of any clip
ContentDuration(segs) ==
    IF segs = <<>> THEN 0
    ELSE LET s == segs[Len(segs)]
         IN  Max(s.start_ms + s.len, ContentDuration(SubSeq(segs, 1, Len(segs) - 1)))

\* audio.py:68-73  final_duration_ms
FinalDuration(segs, target) ==
    LET d == IF target # None THEN target ELSE ContentDuration(segs)
    IN  IF d = 0 THEN MIN_SAFETY_MS ELSE d

\* faulty variant of Contribution: a clip that starts before final is overlaid whole
Contribution_NoCrop(s, final) ==
    IF s.start_ms >= final THEN <<>>
    ELSE <<[pos |-> s.start_ms, len |-> s.len]>>
\* audio.py:80-94  what one clip contributes: <<>> when skipped, else the
\* (possibly cropped) piece that is overlaid at its start
Contribution(s, final) ==
    IF s.start_ms >= final THEN <<>>
    ELSE IF s.start_ms + s.len > final
         THEN IF final - s.start_ms > 0
              THEN <<[pos |-> s.start_ms, len |-> final - s.start_ms]>>
              ELSE <<>>
         ELSE <<[pos |-> s.start_ms, len |-> s.len]>>

RECURSIVE Overlays(_, _)
\* audio.py:80-96  the pieces overlaid, in placement order
Overlays(segs, final) ==
    IF segs = <<>> THEN <<>>
    ELSE Overlays(SubSeq(segs, 1, Len(segs) - 1), final)
           \o Contribution(segs[Len(segs)], final)

\* pydub AudioSegment.overlay: the result keeps the length of the base track
OverlayLen(baseLen, piece) == baseLen

RECURSIVE ComposedLen(_, _)
\* audio.py:76-96  len(final_audio) after the overlays
ComposedLen(baseLen, pieces) ==
    IF pieces = <<>> THEN baseLen
    ELSE ComposedLen(OverlayLen(baseLen, pieces[1]), Tail(pieces))

\* audio.py:99-100  final_audio[:final_duration_ms] when the length differs
ForceLen(len, final) == IF len # final THEN Min(len, final) ELSE len

\* the state of the output file before any export
NoFile == [written |-> FALSE, duration |-> 0, overlays |-> <<>>, final |-> 0,
           composed |-> 0]

\* faulty variant of segments_after_export: the cropped clips are stored back
segments_after_export_Cropped(segs, target) ==
    [k \in 1..Len(segs) |->
        [start_ms |-> segs[k].start_ms,
         len      |-> Min(segs[k].len,
                          Max(0, FinalDuration(segs, target) - segs[k].start_ms))]]
\* audio.py:80-96  self.segments after export: the loop only reads the list,
\* and `seg = seg[:remaining_space]` (92) rebinds the loop's local name to a
\* new AudioSegment, so the stored tuples are the ones add_segment appended
segments_after_export(segs, target) == segs

\* audio.py:39-104  AudioTimeline.export: the file it leaves at output_path
export(segs, target) ==
    IF segs = <<>>
    THEN IF target # None /\ target # 0
         THEN [written |-> TRUE, duration |-> target, overlays |-> <<>>,
               final |-> target, composed |-> target]
         ELSE NoFile
    ELSE LET final  == FinalDuration(segs, target)
             pieces == Overlays(segs, final)
         IN  [written  |-> TRUE,
              duration |-> ForceLen(ComposedLen(final, pieces), final),
              overlays |-> pieces,
              final    |-> final,
              composed |-> ComposedLen(final, pieces)]


(***************************************************************************)
(* State                                                                   *)
(***************************************************************************)
VARIABLES
    timeline,        \* AudioTimeline.segments: sequence of [start_ms, len]
    addLog,          \* history: the (start_time, len, auto_shift) of each add_segment call
    outFile,         \* the audio file at output_path: [written, duration, overlays]
    exportCall,      \* history: the last export call [called, target, nclips]
    script,          \* generate_audio_track_iter: its script argument
    total_duration,  \* generate_audio_track_iter: its total_duration argument
    gpc,             \* generate_audio_track_iter: where the generator is suspended
    gi,              \* generate_audio_track_iter: loop index i
    ttsLog,          \* history: the calls made to self.tts.generate, [idx, ok, len]
    item,            \* the event last pulled from generate_audio_track_iter
    result_path,     \* generate_audio_track: result_path
    pc,              \* where the caller (process_video / generate_audio_track) is
    cancel_flag,     \* VideoTranslatorPipeline.cancel_flag
    dubbing_enabled, \* process_video: dubbing_enabled argument
    video_duration,  \* process_video: video_duration (float seconds)
    segments,        \* process_video: segments returned by asr.transcribe
    i,               \* process_video: translation loop index
    dubbing_script,  \* process_video: dubbing_script
    trLog,           \* history: indices for which translator.translate was called
    proc,            \* the encoder subprocess [spawned, live, terminated, lines, sorted, last]
    lastProg,        \* fraction of the last ("progress", fraction, msg) event yielded
    lastEvent,       \* kind of the last event process_video yielded
    nResults,        \* number of ("result", ...) events process_video yielded
    nEvents,         \* history: number of events process_video has yielded
    outcome,         \* how the process_video run ended
    cancelAt,        \* history: the position of the run when cancel_task() was called
    default_speaker,   \* argument of generate_audio_track_iter
    default_language,  \* argument of generate_audio_track_iter
    progress_callback, \* generate_audio_track was given a progress_callback
    genEvents,       \* history: the events generate_audio_track_iter yielded, in order
    cbLog,           \* history: the calls of progress_callback, in order
    stages,          \* history: the stages process_video entered, in order
    trRet,           \* history: the translator.translate calls that returned
    final_audio_path, \* process_video's final_audio_path ("" while unassigned)
    resultPayload,   \* the tuple carried by process_video's result event
    entry,           \* the entry point that is running: "app", "main" or "none"
    raw,             \* the input handed to the entry point, before any validation
    host,            \* what the entry point has done to its host process
    srtIn,           \* the segments argument of a call of _generate_srt
    srtOut           \* the blocks that call has written to its file, in order

tlVars  == <<timeline, addLog, outFile, exportCall>>
genHist == <<default_speaker, default_language, progress_callback, genEvents, cbLog>>
genVars == <<script, total_duration, gpc, gi, ttsLog, item, result_path, genHist>>
runHist == <<stages, trRet, final_audio_path, resultPayload>>
entryVars == <<entry, raw, host>>
srtVars == <<srtIn, srtOut>>
runVars == <<cancel_flag, dubbing_enabled, video_duration, segments, i, dubbing_script,
             trLog, proc, lastProg, lastEvent, nResults, nEvents, outcome, cancelAt, runHist>>
vars    == <<timeline, addLog, outFile, exportCall, script, total_duration, gpc, gi,
             ttsLog, item, result_path, pc, cancel_flag, dubbing_enabled,
             video_duration, segments, i, dubbing_script, trLog, proc, lastProg,
             lastEvent, nResults, nEvents, outcome, cancelAt, default_speaker,
             default_language, progress_callback, genEvents, cbLog, stages, trRet,
             final_audio_path, resultPayload, entry, raw, host, srtIn, srtOut>>

NoItem == [kind |-> "none", cur |-> 0, total |-> 0, msg |-> <<0, 0>>, path |-> ""]
NoProc == [spawned |-> FALSE, live |-> FALSE, terminated |-> FALSE,
           lines |-> 0, sorted |-> TRUE, last |-> 0, spawns |-> 0, returncode |-> None,
           audio_in |-> ""]
NoCancel == [set |-> FALSE, pc |-> "none", gpc |-> "none", i |-> 0, gi |-> 0,
             live |-> FALSE]
NoResult == [yielded |-> FALSE, final_audio_path |-> ""]
\* a script that is a JSON list of objects in an existing file, no --video
WellFormed == [kind |-> "ok", badAt |-> 0, video |-> "none"]

\* audio.py:7-8  AudioTimeline.__init__, and no file written yet
InitTimeline ==
    /\ timeline = <<>>
    /\ addLog = <<>>
    /\ outFile = NoFile
    /\ exportCall = [called |-> FALSE, target |-> None, nclips |-> 0, wrote |-> FALSE]

\* no generator of generate_audio_track_iter exists
InitNoGen ==
    /\ script = <<>>
    /\ total_duration = NoneSec
    /\ gpc = "g_none"
    /\ gi = 0
    /\ ttsLog = <<>>
    /\ item = NoItem
    /\ result_path = ""
    /\ default_speaker = ""
    /\ default_language = ""
    /\ progress_callback = FALSE
    /\ genEvents = <<>>
    /\ cbLog = <<>>

\* video_translator.py:23-27  VideoTranslatorPipeline.__init__, no run started
InitNoRun ==
    /\ cancel_flag = FALSE
    /\ video_duration = Sec(0, 1)
    /\ segments = <<>>
    /\ i = 0
    /\ dubbing_script = <<>>
    /\ trLog = {}
    /\ proc = NoProc
    /\ lastProg = <<0, 1>>
    /\ lastEvent = "none"
    /\ nResults = 0
    /\ nEvents = 0
    /\ outcome = "none"
    /\ cancelAt = NoCancel
    /\ stages = <<>>
    /\ trRet = <<>>
    /\ final_audio_path = ""
    /\ resultPayload = NoResult

\* no entry point of app.py or main.py is involved, no _generate_srt call
InitNoEntry ==
    /\ entry = "none"
    /\ raw = WellFormed
    /\ host = "none"
    /\ srtIn = <<>>
    /\ srtOut = <<>>

(***************************************************************************)
(* The timeline driven directly through its API                            *)
(***************************************************************************)
\* audio.py:10-37  a call of add_segment
TLAdd ==
    /\ pc = "api"
    /\ Len(timeline) < MaxClips
    /\ \E st \in StartTimes, len \in Durations, as \in BOOLEAN :
         /\ timeline' = add_segment(timeline, st, len, as)
         /\ addLog' = Append(addLog, [start_time |-> st, len |-> len,
                                      auto_shift |-> as])
    /\ UNCHANGED <<outFile, exportCall, pc>>
    /\ UNCHANGED genVars
    /\ UNCHANGED runVars
    /\ UNCHANGED entryVars
    /\ UNCHANGED srtVars

\* audio.py:39-104  a call of export
TLExport ==
    /\ pc = "api"
    /\ \E t \in Targets :
         /\ outFile' = (IF export(timeline, t).written THEN export(timeline, t) ELSE outFile)
         /\ exportCall' = [called |-> TRUE, target |-> t, nclips |-> Len(timeline),
                            wrote |-> export(timeline, t).written]
         /\ timeline' = segments_after_export(timeline, t)
    /\ UNCHANGED <<addLog, pc>>
    /\ UNCHANGED genVars
    /\ UNCHANGED runVars
    /\ UNCHANGED entryVars
    /\ UNCHANGED srtVars

InitApi ==
    /\ InitTimeline
    /\ InitNoGen
    /\ InitNoRun
    /\ InitNoEntry
    /\ dubbing_enabled = TRUE
    /\ pc = "api"
NextApi == TLAdd \/ TLExport
SpecTimeline == InitApi /\ [][NextApi]_vars

(***************************************************************************)
(* VideoDubber.generate_audio_track_iter (src/src/pipeline/dubbing.py)     *)
(*                                                                         *)
(* A generator runs only while its consumer is blocked in next(); the      *)
(* consumer is generate_audio_track (pc = "dub_pull") or process_video     *)
(* (pc = "synth_pull").  A yield hands the event to the consumer in item.  *)
(***************************************************************************)
\* starts of the segments of a script handed to the driver: 0 s, 0.01 s
ScriptStarts == {Sec(0, 1), Sec(1, 100)}
\* segment.get("text", ""): empty or not
Texts == {"", "text"}
\* clip durations in ms the synthesis collaborator returns to the driver
TtsDurations == {2000, 3000}
\* total_duration arguments: None, 0 s, 2 s, 4 s
TotalDurations == {NoneSec, Sec(0, 1), Sec(2, 1), Sec(4, 1)}

\* a segment of a script may carry its own speaker, language and instruct
ScriptSegments == [start : ScriptStarts, text : Texts, speaker : {"Vivian"},
                   language : {"Japanese"}, instruct : {"happy"}]
Scripts == UNION {[1..n -> ScriptSegments] : n \in 0..MaxScript}

\* the consumer is blocked in next(generator)
Pulling == pc \in {"dub_pull", "synth_pull"}
\* where the consumer continues with the event it pulled (the loop body)
ItemPc == IF pc = "dub_pull" THEN "dub_item" ELSE "synth_item"
\* where the consumer continues when the generator is exhausted (after the loop)
AfterLoopPc == IF pc = "dub_pull" THEN "dub_return" ELSE "mux"

\* the output_path argument: generate_audio_track's own (dubbing.py:24), or
\* process_video's final_audio_path (video_translator.py:194)
wrapper_output_path == "output_path"
OutputPath == IF pc = "dub_pull" THEN wrapper_output_path ELSE "final_dubbed.wav"

\* faulty variant of ProgressEvent: the index counts from 1
ProgressEvent_OneBased(idx, total) ==
    [kind |-> "progress", cur |-> idx + 1, total |-> total, msg |-> <<idx + 1, total>>,
     path |-> ""]
\* dubbing.py:53  ("progress", i, total_segments, f"... segment {i+1}/{total_segments}")
ProgressEvent(idx, total) ==
    [kind |-> "progress", cur |-> idx, total |-> total, msg |-> <<idx + 1, total>>,
     path |-> ""]
\* dubbing.py:86  ("result", output_path)
ResultEvent(path) ==
    [kind |-> "result", cur |-> 0, total |-> 0, msg |-> <<0, 0>>, path |-> path]

\* dubbing.py:84  target_duration_ms = int(total_duration * 1000) if total_duration else None
TargetMs(td) == IF td = NoneSec \/ td[1] = 0 THEN None ELSE ToMs(td)

\* faulty variant of SpeakerFor: segment.get("speaker", default_speaker)
SpeakerFor_Segment(segment, default) == segment.speaker
\* dubbing.py:61  speaker = default_speaker
SpeakerFor(segment, default) == default
\* dubbing.py:62  language = default_language
LanguageFor(segment, default) == default
\* dubbing.py:70  the arguments of self.tts.generate for the segment of index idx
TtsCall(idx) ==
    [idx |-> idx,
     text |-> script[idx + 1].text,
     speaker |-> SpeakerFor(script[idx + 1], default_speaker),
     language |-> LanguageFor(script[idx + 1], default_language),
     instruct |-> script[idx + 1].instruct]

\* faulty variant of SynthHandler: no try/except, the exception escapes
SynthHandler_Propagate(exc) == "raised"
\* dubbing.py:69-81  what the try/except around tts.generate and add_segment
\* does with an exception raised inside it: "caught" (log, next segment)
SynthHandler(exc) == "caught"

\* dubbing.py:52-53  top of the loop with a segment left: yield its progress event
GenYieldProgress ==
    /\ Pulling
    /\ gpc \in {"g_new", "g_loop"}
    /\ gi < Len(script)
    /\ raw.kind # "not_list"
    /\ item' = ProgressEvent(gi, Len(script))
    /\ genEvents' = Append(genEvents, item')
    /\ gpc' = "g_yielded"
    /\ pc' = ItemPc
    /\ UNCHANGED <<script, total_duration, gi, ttsLog, result_path>>
    /\ UNCHANGED tlVars
    /\ UNCHANGED runVars
    /\ UNCHANGED <<default_speaker, default_language, progress_callback, cbLog>>
    /\ UNCHANGED entryVars
    /\ UNCHANGED srtVars

\* dubbing.py:55-70  resumed after the progress event: skip an empty text,
\* else call self.tts.generate
GenBody ==
    /\ Pulling
    /\ gpc = "g_yielded"
    /\ ~(raw.kind = "bad_elements" /\ raw.badAt = gi + 1)
    /\ IF script[gi + 1].text = ""
       THEN gi' = gi + 1 /\ gpc' = "g_loop"
       ELSE gi' = gi /\ gpc' = "g_tts"
    /\ UNCHANGED <<script, total_duration, ttsLog, item, result_path, pc>>
    /\ UNCHANGED tlVars
    /\ UNCHANGED runVars
    /\ UNCHANGED genHist
    /\ UNCHANGED entryVars
    /\ UNCHANGED srtVars

\* dubbing.py:70-79  tts.generate returns (audio_data, sr); timeline.add_segment
GenTtsReturn ==
    /\ Pulling
    /\ gpc = "g_tts"
    /\ \E len \in TtsDurations :
         /\ timeline' = add_segment(timeline, script[gi + 1].start, len, TRUE)
         /\ addLog' = Append(addLog, [start_time |-> script[gi + 1].start,
                                      len |-> len, auto_shift |-> TRUE])
         /\ ttsLog' = Append(ttsLog, [idx |-> gi, ok |-> TRUE, len |-> len,
                                      call |-> TtsCall(gi)])
    /\ gi' = gi + 1
    /\ gpc' = "g_loop"
    /\ UNCHANGED <<script, total_duration, item, result_path, pc>>
    /\ UNCHANGED <<outFile, exportCall>>
    /\ UNCHANGED runVars
    /\ UNCHANGED genHist
    /\ UNCHANGED entryVars
    /\ UNCHANGED srtVars

\* dubbing.py:70, 80-81  tts.generate raises
GenTtsRaise ==
    /\ Pulling
    /\ gpc = "g_tts"
    /\ ttsLog' = Append(ttsLog, [idx |-> gi, ok |-> FALSE, len |-> 0,
                                 call |-> TtsCall(gi)])
    /\ IF SynthHandler("Exception") = "caught"
       THEN gi' = gi + 1 /\ gpc' = "g_loop" /\ pc' = pc /\ outcome' = outcome
       ELSE gi' = gi /\ gpc' = "g_raised" /\ pc' = "done" /\ outcome' = "Exception"
    /\ UNCHANGED <<script, total_duration, item, result_path>>
    /\ UNCHANGED tlVars
    /\ UNCHANGED <<cancel_flag, dubbing_enabled, video_duration, segments, i,
                   dubbing_script, trLog, proc, lastProg, lastEvent, nResults, nEvents, cancelAt>>
    /\ UNCHANGED genHist
    /\ UNCHANGED runHist
    /\ UNCHANGED entryVars
    /\ UNCHANGED srtVars

\* dubbing.py:83-86  loop exhausted: export, then yield the result event
GenFinish ==
    /\ Pulling
    /\ gpc \in {"g_new", "g_loop"}
    /\ gi = Len(script)
    /\ raw.kind # "not_list"
    /\ LET t == TargetMs(total_duration)
       IN  /\ outFile' = (IF export(timeline, t).written THEN export(timeline, t)
                          ELSE outFile)
           /\ exportCall' = [called |-> TRUE, target |-> t, nclips |-> Len(timeline),
                              wrote |-> export(timeline, t).written]
    /\ item' = ResultEvent(OutputPath)
    /\ genEvents' = Append(genEvents, item')
    /\ gpc' = "g_result"
    /\ pc' = ItemPc
    /\ UNCHANGED <<script, total_duration, gi, ttsLog, result_path>>
    /\ timeline' = segments_after_export(timeline, TargetMs(total_duration))
    /\ UNCHANGED addLog
    /\ UNCHANGED runVars
    /\ UNCHANGED <<default_speaker, default_language, progress_callback, cbLog>>
    /\ UNCHANGED entryVars
    /\ UNCHANGED srtVars

\* dubbing.py:86  resumed after the result event: the generator returns
GenStop ==
    /\ Pulling
    /\ gpc = "g_result"
    /\ gpc' = "g_done"
    /\ pc' = AfterLoopPc
    /\ UNCHANGED <<script, total_duration, gi, ttsLog, item, result_path>>
    /\ UNCHANGED tlVars
    /\ UNCHANGED runVars
    /\ UNCHANGED genHist
    /\ UNCHANGED entryVars
    /\ UNCHANGED srtVars

GenNext == GenYieldProgress \/ GenBody \/ GenTtsReturn \/ GenTtsRaise \/ GenFinish \/ GenStop

(***************************************************************************)
(* VideoDubber.generate_audio_track: the blocking wrapper                  *)
(***************************************************************************)
\* dubbing.py:23-26  create the generator (its body has not started yet)
DubCall ==
    /\ pc = "dub_call"
    /\ gpc' = "g_new"
    /\ result_path' = ""
    /\ pc' = "dub_pull"
    /\ UNCHANGED <<script, total_duration, gi, ttsLog, item>>
    /\ UNCHANGED tlVars
    /\ UNCHANGED runVars
    /\ UNCHANGED genHist
    /\ UNCHANGED entryVars
    /\ UNCHANGED srtVars

\* faulty variant of CallsBack: the callback is called for every event
CallsBack_EveryEvent(it, given) == given
\* dubbing.py:28-29  if item[0] == "progress": if progress_callback: ...
CallsBack(it, given) == it.kind = "progress" /\ given
\* dubbing.py:30  progress_callback(*item[1:])
CallbackArgs(it) == [cur |-> it.cur, total |-> it.total, msg |-> it.msg]

\* dubbing.py:27-32  the loop body on one event
DubItem ==
    /\ pc = "dub_item"
    /\ result_path' = (IF item.kind = "result" THEN item.path ELSE result_path)
    /\ cbLog' = (IF CallsBack(item, progress_callback)
                 THEN Append(cbLog, CallbackArgs(item)) ELSE cbLog)
    /\ pc' = "dub_pull"
    /\ UNCHANGED <<script, total_duration, gpc, gi, ttsLog, item>>
    /\ UNCHANGED tlVars
    /\ UNCHANGED runVars
    /\ UNCHANGED <<default_speaker, default_language, progress_callback, genEvents>>
    /\ UNCHANGED entryVars
    /\ UNCHANGED srtVars

\* dubbing.py:33  return result_path
DubReturn ==
    /\ pc = "dub_return"
    /\ pc' = "dub_done"
    /\ UNCHANGED genVars
    /\ UNCHANGED tlVars
    /\ UNCHANGED runVars
    /\ UNCHANGED entryVars
    /\ UNCHANGED srtVars

InitDub ==
    /\ InitTimeline
    /\ InitNoRun
    /\ InitNoEntry
    /\ script \in Scripts
    /\ total_duration \in TotalDurations
    /\ gpc = "g_none"
    /\ gi = 0
    /\ ttsLog = <<>>
    /\ item = NoItem
    /\ result_path = ""
    /\ default_speaker = "Uncle_Fu"
    /\ default_language = "Chinese"
    /\ progress_callback \in BOOLEAN
    /\ genEvents = <<>>
    /\ cbLog = <<>>
    /\ dubbing_enabled = TRUE
    /\ pc = "dub_call"
NextDub == DubCall \/ DubItem \/ DubReturn \/ GenNext
SpecDub == InitDub /\ [][NextDub]_vars

(***************************************************************************)
(* The entry points: generate_audio (src/app.py) and main (src/main.py)    *)
(***************************************************************************)
\* the kinds of input: a missing script file (main only), a body that is not
\* JSON, a JSON number, a list with an element that is not an object, a
\* list of objects
InputKinds(e) ==
    IF e = "main" THEN {"missing", "invalid_json", "not_list", "bad_elements", "ok"}
    ELSE {"invalid_json", "not_list", "bad_elements", "ok"}

\* what the entry point does with the input before it calls generate_audio_track:
\* app.py:27-35 catches the JSON error and rejects a non-list, both with a
\* message; main.py:18-23 reports a missing file and calls load_script, whose
\* json.load (dubbing.py:13-15) raises on a body that is not JSON
Validate(e, kind) ==
    IF e = "app"
    THEN IF kind \in {"invalid_json", "not_list"} THEN "message" ELSE "pass"
    ELSE IF kind = "missing" THEN "message"
         ELSE IF kind = "invalid_json" THEN "raise"
         ELSE "pass"

\* what encloses the entry point's calls of load_script and generate_audio_track:
\* app.py:42-53 try/except Exception; main.py:23-26 nothing
EntryHandler(e) == IF e = "app" THEN "caught" ELSE "propagate"

\* an exception reaches the entry point: a message, or it escapes to the host
EntryRaise ==
    /\ host' = (IF EntryHandler(entry) = "caught" THEN "message" ELSE "crash")
    /\ pc' = "entry_done"

\* app.py:27-40, main.py:18-23  parse and validate the input
EntryValidate ==
    /\ pc = "entry"
    /\ IF Validate(entry, raw.kind) = "message"
       THEN host' = "message" /\ pc' = "entry_done"
       ELSE IF Validate(entry, raw.kind) = "raise"
            THEN EntryRaise
            ELSE host' = host /\ pc' = "dub_call"
    /\ UNCHANGED <<entry, raw>>
    /\ UNCHANGED genVars
    /\ UNCHANGED tlVars
    /\ UNCHANGED runVars
    /\ UNCHANGED srtVars

\* dubbing.py:48-56  the generator's body raises on an input it cannot work on:
\* len() of a number (TypeError, on the first next), or .get of an element
\* that is not an object (AttributeError, after that element's progress event);
\* neither is inside the try of 69-81, and generate_audio_track has no try
GenInputRaise ==
    /\ Pulling
    /\ \/ gpc = "g_new" /\ raw.kind = "not_list"
       \/ gpc = "g_yielded" /\ raw.kind = "bad_elements" /\ raw.badAt = gi + 1
    /\ gpc' = "g_raised"
    /\ EntryRaise
    /\ UNCHANGED <<script, total_duration, gi, ttsLog, item, result_path>>
    /\ UNCHANGED genHist
    /\ UNCHANGED <<entry, raw>>
    /\ UNCHANGED tlVars
    /\ UNCHANGED runVars
    /\ UNCHANGED srtVars

\* app.py:51  return the path and a success message;
\* main.py:28-34  with --video: report a missing video file, else dub_video
EntryFinish ==
    /\ pc = "dub_done"
    /\ \E video \in (IF entry = "main" THEN {"none", "missing", "present"} ELSE {"none"}) :
         /\ raw' = [raw EXCEPT !.video = video]
         /\ host' = (IF video = "missing" THEN "message" ELSE "returned")
    /\ pc' = "entry_done"
    /\ UNCHANGED entry
    /\ UNCHANGED genVars
    /\ UNCHANGED tlVars
    /\ UNCHANGED runVars
    /\ UNCHANGED srtVars

InitEntry ==
    /\ InitTimeline
    /\ InitNoRun
    /\ entry \in {"app", "main"}
    /\ script \in Scripts
    /\ raw \in [kind : InputKinds(entry), badAt : 0..Len(script), video : {"none"}]
    /\ (raw.kind = "bad_elements") = (raw.badAt > 0)
    /\ raw.kind \in {"missing", "invalid_json", "not_list"} => script = <<>>
    /\ host = "running"
    /\ srtIn = <<>>
    /\ srtOut = <<>>
    /\ total_duration = NoneSec
    /\ gpc = "g_none"
    /\ gi = 0
    /\ ttsLog = <<>>
    /\ item = NoItem
    /\ result_path = ""
    /\ default_speaker = "Uncle_Fu"
    /\ default_language = "Chinese"
    /\ progress_callback = FALSE
    /\ genEvents = <<>>
    /\ cbLog = <<>>
    /\ dubbing_enabled = TRUE
    /\ pc = "entry"
NextEntry ==
    \/ EntryValidate \/ EntryFinish \/ GenInputRaise
    \/ DubCall \/ DubItem \/ DubReturn \/ GenNext
SpecEntry == InitEntry /\ [][NextEntry]_vars

(***************************************************************************)
(* VideoTranslatorPipeline._format_time and _generate_srt                  *)
(* (src/src/pipeline/video_translator.py)                                  *)
(*                                                                         *)
(* A formatted number is the sequence of its decimal digits.               *)
(***************************************************************************)
\* most segments in a list handed to _generate_srt
MaxSrt == 2
\* times in seconds: 0, 0.0015, 59.999, 60, 3661.5, 360000 (100 hours)
SrtTimes == {Sec(0, 1), Sec(3, 2000), Sec(59999, 1000), Sec(60, 1), Sec(7323, 2),
             Sec(360000, 1)}
\* seg.get(text_key, ""): a text with surrounding white space
SrtTexts == {" hi "}
SrtSegments == {seg \in [start : SrtTimes, end : SrtTimes, text : SrtTexts] :
                  seg.start[1] * seg.end[2] <= seg.end[1] * seg.start[2]}
SrtLists == UNION {[1..n -> SrtSegments] : n \in 0..MaxSrt}

RECURSIVE Digits(_, _)
\* f"{x:0{width}d}" of a non-negative x: its decimal digits, zero-padded to width
Digits(x, width) ==
    IF x < 10 /\ width <= 1 THEN <<x>>
    ELSE Append(Digits(x \div 10, width - 1), x % 10)
\* str.strip() on the texts of the model
Strip(txt) == IF txt = " hi " THEN "hi" ELSE txt

\* faulty variant of FormatTime: the minutes are not reduced modulo 60
FormatTime_NoModulo(t) ==
    LET whole == t[1] \div t[2]
    IN  [hh  |-> Digits((whole \div 60) \div 60, 2),
         mm  |-> Digits(whole \div 60, 2),
         ss  |-> Digits(whole % 60, 2),
         mmm |-> Digits(((t[1] % t[2]) * 1000) \div t[2], 3)]
\* video_translator.py:64-72  _format_time(seconds)
FormatTime(t) ==
    LET millis  == ((t[1] % t[2]) * 1000) \div t[2]
        whole   == t[1] \div t[2]
        minutes == whole \div 60
        hours   == minutes \div 60
    IN  [hh  |-> Digits(hours, 2),
         mm  |-> Digits(minutes % 60, 2),
         ss  |-> Digits(whole % 60, 2),
         mmm |-> Digits(millis, 3)]

\* video_translator.py:77-84  the block written for the segment at list index idx
SrtBlock(idx, seg) ==
    [index |-> idx + 1,
     start |-> FormatTime(seg.start),
     end   |-> FormatTime(seg.end),
     text  |-> Strip(seg.text)]

\* video_translator.py:77-84  one iteration of the loop of _generate_srt
SrtWrite ==
    /\ pc = "srt_write"
    /\ Len(srtOut) < Len(srtIn)
    /\ srtOut' = Append(srtOut, SrtBlock(Len(srtOut), srtIn[Len(srtOut) + 1]))
    /\ UNCHANGED <<srtIn, pc>>
    /\ UNCHANGED entryVars
    /\ UNCHANGED genVars
    /\ UNCHANGED tlVars
    /\ UNCHANGED runVars

\* video_translator.py:76, 85  the loop is exhausted, the file is closed
SrtClose ==
    /\ pc = "srt_write"
    /\ Len(srtOut) = Len(srtIn)
    /\ pc' = "srt_done"
    /\ UNCHANGED srtVars
    /\ UNCHANGED entryVars
    /\ UNCHANGED genVars
    /\ UNCHANGED tlVars
    /\ UNCHANGED runVars

InitSrt ==
    /\ InitTimeline
    /\ InitNoGen
    /\ InitNoRun
    /\ entry = "none"
    /\ raw = WellFormed
    /\ host = "none"
    /\ srtIn \in SrtLists
    /\ srtOut = <<>>
    /\ dubbing_enabled = TRUE
    /\ pc = "srt_write"
NextSrt == SrtWrite \/ SrtClose
SpecSrt == InitSrt /\ [][NextSrt]_vars

(***************************************************************************)
(* VideoTranslatorPipeline.process_video                                   *)
(* (src/src/pipeline/video_translator.py)                                  *)
(*                                                                         *)
(* process_video is a generator; its consumer drains it.  Progress         *)
(* fractions are exact rationals <<num, den>>.                             *)
(***************************************************************************)
RECURSIVE Gcd(_, _)
Gcd(a, b) == IF b = 0 THEN a ELSE Gcd(b, a % b)
\* a fraction in lowest terms
Norm(f) == LET g == Gcd(f[1], f[2]) IN IF g = 0 THEN f ELSE <<f[1] \div g, f[2] \div g>>
\* a <= b, a = b for fractions with positive denominators
FracLeq(a, b) == a[1] * b[2] <= b[1] * a[2]
FracEq(a, b) == a[1] * b[2] = b[1] * a[2]
\* the float literal p/100
Pct(p) == Norm(<<p, 100>>)

\* video.duration values of the source video: 0 s, 2 s, 4 s
VideoDurations == {Sec(0, 1), Sec(2, 1), Sec(4, 1)}
\* out_time_us values the encoder can report: 1 s, 2 s, 5 s
OutTimes == {1000000, 2000000, 5000000}
\* a line of the encoder's merged output: a log line or out_time_us=<n>
EncoderLines == {[match |-> FALSE, out_time_us |-> 0]}
                  \cup {[match |-> TRUE, out_time_us |-> t] : t \in OutTimes}
\* what asr.transcribe can return: up to MaxSeg segments in chronological order,
\* 10 ms apart, each with a text that is empty after strip() or not
AsrResults ==
    UNION {{[k \in 1..n |-> [start |-> Sec(k - 1, 100), end |-> Sec(k, 100),
                             text |-> txt[k]]] : txt \in [1..n -> Texts]}
           : n \in 0..MaxSeg}

\* what translator.translate can return: an empty or a non-empty target-language text
Translations == {"", "translated"}

\* faulty variant of OnTranslateError: the original-language text is carried forward
OnTranslateError_KeepOriginal(scr, seg, idx) ==
    Append(scr, [start |-> seg.start, end |-> seg.end, text |-> seg.text,
                 instruct |-> "neutral", src |-> idx])
\* video_translator.py:165-168  except Exception: print, continue; nothing is appended
OnTranslateError(scr, seg, idx) == scr

\* video_translator.py:144  0.30 + (0.40 * (i / max(total_segments, 1)))
TranslateProgress(idx, total) ==
    Norm(<<30 * Max(total, 1) + 40 * idx, 100 * Max(total, 1)>>)

\* video_translator.py:216  0.75 + (0.15 * (cur / max(total, 1)))
SynthProgress(cur, total) ==
    Norm(<<75 * Max(total, 1) + 15 * cur, 100 * Max(total, 1)>>)

\* faulty variant of ProgRatio: current_sec / video_duration without the min
ProgRatio_Unclamped(out_time_us, vd) ==
    Norm(<<out_time_us * vd[2], US_PER_S * vd[1]>>)
\* video_translator.py:306-309  min(current_sec / video_duration, 1.0)
ProgRatio(out_time_us, vd) ==
    LET r == Norm(<<out_time_us * vd[2], US_PER_S * vd[1]>>)
    IN  IF r[1] >= r[2] THEN <<1, 1>> ELSE r

\* faulty variant of EncodeProgress: 0.80 + (0.09 * prog_ratio)
EncodeProgress_LowBase(out_time_us, vd) ==
    LET r == ProgRatio(out_time_us, vd)
    IN  Norm(<<80 * r[2] + 9 * r[1], 100 * r[2]>>)
\* faulty variant of EncodeProgress: 0.90 + (0.10 * prog_ratio)
EncodeProgress_Full(out_time_us, vd) ==
    LET r == ProgRatio(out_time_us, vd)
    IN  Norm(<<90 * r[2] + 10 * r[1], 100 * r[2]>>)
\* video_translator.py:320  ui_prog = 0.90 + (0.09 * prog_ratio)
EncodeProgress(out_time_us, vd) ==
    LET r == ProgRatio(out_time_us, vd)
    IN  Norm(<<90 * r[2] + 9 * r[1], 100 * r[2]>>)

\* What process_video does with an exception raised at a site of its body:
\* video_translator.py:107-113 wraps an extraction failure in RuntimeError,
\* 151-168 catches a failure of translator.translate and continues; nothing
\* encloses the cancellation checks (134-136, 203-204, 295-297), asr.transcribe
\* (120) or the final returncode check (325-329)
\* (faulty variant Handler_CheckInsideTry: the check of 135-136 inside the try)
Handler_CheckInsideTry(site) ==
    IF site = "extract" THEN "wrap"
    ELSE IF site \in {"translate", "tr_check"} THEN "caught"
    ELSE "propagate"
\* (faulty variant Handler_ExtractUnwrapped: no try/except around the extraction)
Handler_ExtractUnwrapped(site) ==
    IF site = "translate" THEN "caught" ELSE "propagate"
Handler(site) ==
    IF site = "extract" THEN "wrap"
    ELSE IF site = "translate" THEN "caught"
    ELSE "propagate"

\* video_translator.py:105  audio_path: the audio extracted from the source video
audio_path == "temp_extracted.wav"
\* video_translator.py:187  final_audio_path of a dubbed run
dubbed_path == "final_dubbed.wav"

\* video_translator.py:186  if dubbing_enabled: run the synthesis stage
\* (faulty variants: the synthesis stage never runs, or always runs)
DubbingBranch_Never(enabled) == FALSE
DubbingBranch_Always(enabled) == TRUE
DubbingBranch(enabled) == enabled

\* video_translator.py:202-204  the flag is tested on every event pulled from
\* generate_audio_track_iter, before the event's kind is looked at
\* (faulty variant SynthChecks_ProgressOnly: tested on progress events only)
SynthChecks_ProgressOnly(it) == it.kind = "progress"
SynthChecks(it) == TRUE

\* video_translator.py:323-331  after proc.wait(): how the run ends
\* (faulty variant ExitOutcome_Silent: a non-zero exit just returns)
ExitOutcome_Silent(returncode) == IF returncode # 0 THEN "none" ELSE "result"
\* (faulty variant ExitOutcome_IgnoreCode: the exit code is not looked at)
ExitOutcome_IgnoreCode(returncode) == "result"
ExitOutcome(returncode) == IF returncode # 0 THEN "RuntimeError" ELSE "result"

\* a ("progress", fraction, message) event is yielded
YieldProgress(f) ==
    /\ lastProg' = f
    /\ lastEvent' = "progress"
    /\ nResults' = nResults
    /\ nEvents' = nEvents + 1

\* the run ends by raising exc
Raise(exc) ==
    /\ outcome' = exc
    /\ pc' = "done"

\* video_translator.py:42-44  cancel_task(), called from outside the run
CancelTask ==
    /\ pc \in {"created", "extract", "asr", "tr_check", "tr_call", "srt", "synth_pull",
               "synth_item", "mux", "enc_read", "enc_cancel", "enc_wait"}
    /\ ~cancel_flag
    /\ cancel_flag' = TRUE
    /\ cancelAt' = [set |-> TRUE, pc |-> pc, gpc |-> gpc, i |-> i, gi |-> gi,
                    live |-> proc.live]
    /\ UNCHANGED <<dubbing_enabled, video_duration, segments, i, dubbing_script, trLog,
                   proc, lastProg, lastEvent, nResults, nEvents, outcome, pc>>
    /\ UNCHANGED genVars
    /\ UNCHANGED tlVars
    /\ UNCHANGED runHist
    /\ UNCHANGED entryVars
    /\ UNCHANGED srtVars

\* video_translator.py:96-103  first next(): reset the flag, yield 0.05
RunStart ==
    /\ pc = "created"
    /\ cancel_flag' = FALSE
    /\ YieldProgress(Pct(5))
    /\ pc' = "extract"
    /\ UNCHANGED <<dubbing_enabled, video_duration, segments, i, dubbing_script, trLog,
                   proc, outcome, cancelAt>>
    /\ UNCHANGED genVars
    /\ UNCHANGED tlVars
    /\ stages' = Append(stages, "Extract")
    /\ UNCHANGED <<trRet, final_audio_path, resultPayload>>
    /\ UNCHANGED entryVars
    /\ UNCHANGED srtVars

\* video_translator.py:107-116  extract the audio, then yield 0.15
Extract ==
    /\ pc = "extract"
    /\ \/ /\ video_duration' \in VideoDurations
          /\ YieldProgress(Pct(15))
          /\ pc' = "asr"
          /\ outcome' = outcome
       \/ /\ Raise(IF Handler("extract") = "wrap" THEN "RuntimeError" ELSE "Exception")
          /\ UNCHANGED <<video_duration, lastProg, lastEvent, nResults, nEvents>>
    /\ UNCHANGED <<cancel_flag, dubbing_enabled, segments, i, dubbing_script, trLog,
                   proc, cancelAt>>
    /\ UNCHANGED genVars
    /\ UNCHANGED tlVars
    /\ stages' = (IF pc' = "asr" THEN Append(stages, "Transcribe") ELSE stages)
    /\ UNCHANGED <<trRet, final_audio_path, resultPayload>>
    /\ UNCHANGED entryVars
    /\ UNCHANGED srtVars

\* video_translator.py:120-132  asr.transcribe, then yield 0.30
Transcribe ==
    /\ pc = "asr"
    /\ \/ /\ segments' \in AsrResults
          /\ YieldProgress(Pct(30))
          /\ pc' = "tr_check"
          /\ outcome' = outcome
       \/ /\ Handler("asr") = "propagate"
          /\ Raise("Exception")
          /\ UNCHANGED <<segments, lastProg, lastEvent, nResults, nEvents>>
    /\ i' = 0
    /\ UNCHANGED <<cancel_flag, dubbing_enabled, video_duration, dubbing_script, trLog,
                   proc, cancelAt>>
    /\ UNCHANGED genVars
    /\ UNCHANGED tlVars
    /\ stages' = (IF pc' = "tr_check" THEN Append(stages, "Translate") ELSE stages)
    /\ UNCHANGED <<trRet, final_audio_path, resultPayload>>
    /\ UNCHANGED entryVars
    /\ UNCHANGED srtVars

\* video_translator.py:134-149  top of the translation loop for segment i
TrCheck ==
    /\ pc = "tr_check"
    /\ i < Len(segments)
    /\ IF cancel_flag
       THEN IF Handler("tr_check") = "propagate"
            THEN /\ Raise("InterruptedError")
                 /\ UNCHANGED <<i, lastProg, lastEvent, nResults, nEvents>>
            ELSE /\ i' = i + 1
                 /\ UNCHANGED <<pc, outcome, lastProg, lastEvent, nResults, nEvents>>
       ELSE /\ YieldProgress(TranslateProgress(i, Len(segments)))
            /\ IF segments[i + 1].text = ""
               THEN i' = i + 1 /\ pc' = pc
               ELSE i' = i /\ pc' = "tr_call"
            /\ outcome' = outcome
    /\ UNCHANGED <<cancel_flag, dubbing_enabled, video_duration, segments,
                   dubbing_script, trLog, proc, cancelAt>>
    /\ UNCHANGED genVars
    /\ UNCHANGED tlVars
    /\ UNCHANGED runHist
    /\ UNCHANGED entryVars
    /\ UNCHANGED srtVars

\* video_translator.py:151-168  translator.translate for segment i
TrCall ==
    /\ pc = "tr_call"
    /\ trLog' = trLog \cup {i}
    /\ \/ \E txt \in Translations :
            /\ dubbing_script' = Append(dubbing_script,
                                        [start |-> segments[i + 1].start,
                                         end |-> segments[i + 1].end,
                                         text |-> txt, instruct |-> "neutral",
                                         src |-> i])
            /\ trRet' = Append(trRet, [idx |-> i, text |-> txt])
       \/ /\ Handler("translate") = "caught"
          /\ dubbing_script' = OnTranslateError(dubbing_script, segments[i + 1], i)
          /\ trRet' = trRet
    /\ i' = i + 1
    /\ pc' = "tr_check"
    /\ UNCHANGED <<cancel_flag, dubbing_enabled, video_duration, segments, proc,
                   lastProg, lastEvent, nResults, nEvents, outcome, cancelAt>>
    /\ UNCHANGED genVars
    /\ UNCHANGED tlVars
    /\ UNCHANGED <<stages, final_audio_path, resultPayload>>
    /\ UNCHANGED entryVars
    /\ UNCHANGED srtVars

\* video_translator.py:170-176  the loop is exhausted: save the script, yield 0.70
TrLoopExit ==
    /\ pc = "tr_check"
    /\ i = Len(segments)
    /\ YieldProgress(Pct(70))
    /\ pc' = "srt"
    /\ UNCHANGED <<cancel_flag, dubbing_enabled, video_duration, segments, i,
                   dubbing_script, trLog, proc, outcome, cancelAt>>
    /\ UNCHANGED genVars
    /\ UNCHANGED tlVars
    /\ UNCHANGED runHist
    /\ UNCHANGED entryVars
    /\ UNCHANGED srtVars

\* video_translator.py:177-198, 222-224  write the subtitles, yield 0.75, then
\* create the synthesis generator or pass the extracted audio through
Subtitles ==
    /\ pc = "srt"
    /\ YieldProgress(Pct(75))
    /\ IF DubbingBranch(dubbing_enabled)
       THEN /\ script' = dubbing_script
            /\ default_speaker' = "uncle_fu"
            /\ default_language' = "English"
            /\ total_duration' = video_duration
            /\ gpc' = "g_new"
            /\ pc' = "synth_pull"
       ELSE /\ UNCHANGED <<script, total_duration, gpc, default_speaker, default_language>>
            /\ pc' = "mux"
    /\ UNCHANGED <<gi, ttsLog, item, result_path>>
    /\ UNCHANGED <<cancel_flag, dubbing_enabled, video_duration, segments, i,
                   dubbing_script, trLog, proc, outcome, cancelAt>>
    /\ UNCHANGED tlVars
    /\ UNCHANGED <<progress_callback, genEvents, cbLog>>
    /\ stages' = (IF pc' = "synth_pull" THEN Append(stages, "Synthesize") ELSE stages)
    /\ final_audio_path' = (IF pc' = "synth_pull" THEN dubbed_path ELSE audio_path)
    /\ UNCHANGED <<trRet, resultPayload>>
    /\ UNCHANGED entryVars
    /\ UNCHANGED srtVars

\* video_translator.py:202-221  the loop body on one event of the generator
SynthItem ==
    /\ pc = "synth_item"
    /\ IF cancel_flag /\ SynthChecks(item)
       THEN /\ Raise("InterruptedError")
            /\ UNCHANGED <<lastProg, lastEvent, nResults, nEvents>>
       ELSE /\ IF item.kind = "progress"
               THEN YieldProgress(SynthProgress(item.cur, item.total))
               ELSE UNCHANGED <<lastProg, lastEvent, nResults, nEvents>>
            /\ pc' = "synth_pull"
            /\ outcome' = outcome
    /\ UNCHANGED <<cancel_flag, dubbing_enabled, video_duration, segments, i,
                   dubbing_script, trLog, proc, cancelAt>>
    /\ UNCHANGED genVars
    /\ UNCHANGED tlVars
    /\ UNCHANGED runHist
    /\ UNCHANGED entryVars
    /\ UNCHANGED srtVars

\* video_translator.py:227-281  yield 0.90, then spawn the encoder
MuxStart ==
    /\ pc = "mux"
    /\ YieldProgress(Pct(90))
    /\ proc' = [proc EXCEPT !.spawned = TRUE, !.live = TRUE, !.spawns = @ + 1,
                             !.audio_in = final_audio_path]
    /\ pc' = "enc_read"
    /\ UNCHANGED <<cancel_flag, dubbing_enabled, video_duration, segments, i,
                   dubbing_script, trLog, outcome, cancelAt>>
    /\ UNCHANGED genVars
    /\ UNCHANGED tlVars
    /\ stages' = Append(stages, "Mux")
    /\ UNCHANGED <<trRet, final_audio_path, resultPayload>>
    /\ UNCHANGED entryVars
    /\ UNCHANGED srtVars

\* video_translator.py:294-321  one line read from the encoder's stream
EncLine ==
    /\ pc = "enc_read"
    /\ proc.lines < MaxLines
    /\ \E line \in EncoderLines :
         IF cancel_flag
         THEN /\ proc' = [proc EXCEPT !.lines = @ + 1, !.terminated = TRUE]
              /\ pc' = "enc_cancel"
              /\ UNCHANGED <<lastProg, lastEvent, nResults, nEvents>>
         ELSE /\ proc' = [proc EXCEPT
                            !.lines = @ + 1,
                            !.sorted = @ /\ (line.match => line.out_time_us >= proc.last),
                            !.last = IF line.match THEN line.out_time_us ELSE @]
              /\ IF line.match /\ video_duration[1] > 0
                 THEN YieldProgress(EncodeProgress(line.out_time_us, video_duration))
                 ELSE UNCHANGED <<lastProg, lastEvent, nResults, nEvents>>
              /\ pc' = pc
    /\ UNCHANGED <<cancel_flag, dubbing_enabled, video_duration, segments, i,
                   dubbing_script, trLog, outcome, cancelAt>>
    /\ UNCHANGED genVars
    /\ UNCHANGED tlVars
    /\ UNCHANGED runHist
    /\ UNCHANGED entryVars
    /\ UNCHANGED srtVars

\* video_translator.py:296-297  after proc.terminate(): raise InterruptedError
EncCancelRaise ==
    /\ pc = "enc_cancel"
    /\ Raise("InterruptedError")
    /\ UNCHANGED <<cancel_flag, dubbing_enabled, video_duration, segments, i,
                   dubbing_script, trLog, proc, lastProg, lastEvent, nResults, nEvents, cancelAt>>
    /\ UNCHANGED genVars
    /\ UNCHANGED tlVars
    /\ UNCHANGED runHist
    /\ UNCHANGED entryVars
    /\ UNCHANGED srtVars

\* video_translator.py:294  the encoder closes its stream: the for loop ends
EncEof ==
    /\ pc = "enc_read"
    /\ pc' = "enc_wait"
    /\ UNCHANGED runVars
    /\ UNCHANGED genVars
    /\ UNCHANGED tlVars
    /\ UNCHANGED entryVars
    /\ UNCHANGED srtVars

\* video_translator.py:323-331  proc.wait(), then RuntimeError or the result event
EncWait ==
    /\ pc = "enc_wait"
    /\ \E returncode \in {0, 1} :
         /\ proc' = [proc EXCEPT !.live = FALSE, !.returncode = returncode]
         /\ outcome' = ExitOutcome(returncode)
         /\ IF ExitOutcome(returncode) = "result"
            THEN /\ lastEvent' = "result"
                 /\ nResults' = nResults + 1
                 /\ nEvents' = nEvents + 1
                 /\ resultPayload' = [yielded |-> TRUE,
                                      final_audio_path |-> final_audio_path]
            ELSE UNCHANGED <<lastEvent, nResults, nEvents, resultPayload>>
    /\ pc' = "done"
    /\ UNCHANGED <<cancel_flag, dubbing_enabled, video_duration, segments, i,
                   dubbing_script, trLog, lastProg, cancelAt>>
    /\ UNCHANGED genVars
    /\ UNCHANGED tlVars
    /\ UNCHANGED <<stages, trRet, final_audio_path>>
    /\ UNCHANGED entryVars
    /\ UNCHANGED srtVars

\* every step of the run itself (cancel_task is the environment's)
RunNext ==
    \/ RunStart \/ Extract \/ Transcribe \/ TrCheck \/ TrCall \/ TrLoopExit
    \/ Subtitles \/ SynthItem \/ MuxStart \/ EncLine \/ EncCancelRaise \/ EncEof
    \/ EncWait \/ GenNext

Init ==
    /\ InitTimeline
    /\ InitNoGen
    /\ InitNoRun
    /\ InitNoEntry
    /\ dubbing_enabled \in BOOLEAN
    /\ pc = "created"
Next == CancelTask \/ RunNext
Spec == Init /\ [][Next]_vars
\* the run's own thread keeps running and its consumer keeps pulling events;
\* each collaborator call returns or raises, and the encoder closes its stream
LiveSpec == Init /\ [][Next]_vars /\ WF_vars(RunNext)

(***************************************************************************)
(* app.translate_video: the UI adapter that drives one process_video run   *)
(***************************************************************************)
\* app.py:115  the number of names on the left of the unpacking assignment
UNPACK_TARGETS == 5

\* app.py:115  `a, b, c, d, e = pipeline.process_video(...)`: Python's
\* unpacking of an iterator that has yielded n items so far: a sixth item is
\* "too many values to unpack"; an exception raised by the iterator passes
\* through; exhaustion after fewer than five items is "not enough values";
\* exhaustion after exactly five binds the five names to the yielded items
Unpack(n, ended, exc) ==
    IF n > UNPACK_TARGETS THEN "ValueError"
    ELSE IF ended /\ exc \notin {"none", "result"} THEN exc
    ELSE IF ended /\ n < UNPACK_TARGETS THEN "ValueError"
    ELSE IF ended THEN "bound"
    ELSE "pulling"

\* the unpacking has not ended: it pulls the next event from the generator
Unpacking ==
    /\ entry = "translate_video"
    /\ host = "running"
    /\ Unpack(nEvents, pc = "done", outcome) = "pulling"

\* app.py:95-97  translate_video is called; without a video file it returns
\* the error status at once, else (99-115) it creates the generator
UiStart ==
    /\ pc = "ui"
    /\ IF raw.video = "none"
       THEN /\ host' = "message"
            /\ pc' = "ui_done"
       ELSE /\ host' = host
            /\ pc' = "created"
    /\ UNCHANGED <<entry, raw>>
    /\ UNCHANGED tlVars
    /\ UNCHANGED genVars
    /\ UNCHANGED runVars
    /\ UNCHANGED srtVars

\* video_translator.py:227  the generator is at the yield of 0.90 and the
\* unpacking pulls it as one more item; the generator is left suspended at
\* that yield, so the encoder of 281 is not spawned
UiPullAtMux ==
    /\ Unpacking
    /\ pc = "mux"
    /\ YieldProgress(Pct(90))
    /\ pc' = "mux_yielded"
    /\ UNCHANGED <<cancel_flag, dubbing_enabled, video_duration, segments, i,
                   dubbing_script, trLog, proc, outcome, cancelAt>>
    /\ UNCHANGED genVars
    /\ UNCHANGED tlVars
    /\ UNCHANGED runHist
    /\ UNCHANGED entryVars
    /\ UNCHANGED srtVars

\* app.py:115-130  the unpacking has ended: with the five names bound the
\* success tuple of 125-126 is returned, and any exception, the ValueError of
\* the unpacking included, is caught at 128 and turned into the error status
UiReturn ==
    /\ entry = "translate_video"
    /\ host = "running"
    /\ pc \notin {"ui", "ui_done"}
    /\ Unpack(nEvents, pc = "done", outcome) # "pulling"
    /\ host' = (IF Unpack(nEvents, pc = "done", outcome) = "bound"
                THEN "success" ELSE "message")
    /\ pc' = "ui_done"
    /\ UNCHANGED <<entry, raw>>
    /\ UNCHANGED tlVars
    /\ UNCHANGED genVars
    /\ UNCHANGED runVars
    /\ UNCHANGED srtVars

\* app.py:95  a call of translate_video, with or without an uploaded video;
\* it passes no dubbing_enabled, so process_video's default True applies
InitUi ==
    /\ InitTimeline
    /\ InitNoGen
    /\ InitNoRun
    /\ entry = "translate_video"
    /\ raw \in [kind : {"ok"}, badAt : {0}, video : {"none", "present"}]
    /\ host = "running"
    /\ srtIn = <<>>
    /\ srtOut = <<>>
    /\ dubbing_enabled = TRUE
    /\ pc = "ui"
\* the generator runs only while the unpacking pulls; translate_video has no
\* way to call cancel_task
UiRun ==
    /\ Unpacking
    /\ \/ RunStart \/ Extract \/ Transcribe \/ TrCheck \/ TrCall \/ TrLoopExit
       \/ Subtitles \/ GenFinish \/ SynthItem \/ GenStop
NextUi == UiStart \/ UiRun \/ UiPullAtMux \/ UiReturn
SpecUi == InitUi /\ [][NextUi]_vars

(***************************************************************************)
(* Properties of the timeline (checked under SpecTimeline)                 *)
(***************************************************************************)
\* float comparison a <= b of two non-negative times <<num, den>>
SecLeq(a, b) == a[1] * b[2] <= b[1] * a[2]

\* every add so far used auto_shift=True and the intended starts never decreased
AddedInOrder ==
    /\ \A k \in 1..Len(addLog) : addLog[k].auto_shift
    /\ \A k \in 2..Len(addLog) : SecLeq(addLog[k - 1].start_time, addLog[k].start_time)

\* C1: when every clip was added with auto_shift=True in non-decreasing order
\* of intended start, each placed clip after the first starts no earlier than
\* the previous clip's resolved start plus its duration plus 50 ms.
C1_OrderingInvariant ==
    AddedInOrder =>
        \A k \in 2..Len(timeline) :
            timeline[k].start_ms >= timeline[k - 1].start_ms + timeline[k - 1].len + 50

\* C1 witness: a 2000 ms clip at 0 s followed by a clip intended at 0.01 s,
\* which was shifted from 10 ms to 2050 ms.
C1_Witness ==
    /\ AddedInOrder
    /\ Len(timeline) = 2
    /\ addLog[1].start_time = Sec(0, 1)
    /\ addLog[2].start_time = Sec(1, 100)
    /\ timeline[1] = [start_ms |-> 0, len |-> 2000]
    /\ timeline[2].start_ms = 2050

\* C2 as claimed: an export of a timeline holding at least one clip with
\* target_duration_ms = D >= 0 leaves a file of exactly D milliseconds.
C2_DurationExact ==
    (exportCall.called /\ exportCall.nclips > 0 /\ exportCall.target # None)
        => (outFile.written /\ outFile.duration = exportCall.target)

(***************************************************************************)
(* Properties of process_video (checked under Spec and LiveSpec)           *)
(***************************************************************************)
\* the encoder subprocess has been spawned or is about to be
InMux == pc \in {"mux", "enc_read", "enc_cancel", "enc_wait"} \/ proc.spawned

\* C3 as claimed: when cancel_task() sets the flag while segment i is being
\* translated, the translator is called for no later segment and the run ends
\* with InterruptedError.
C3_CancelDuringTranslation ==
    (cancelAt.set /\ cancelAt.pc = "tr_call")
        => /\ \A j \in trLog : j <= cancelAt.i
           /\ (pc = "done" => outcome = "InterruptedError")

\* the flag was set while tts.generate was running for segment cancelAt.gi
CancelledInTts == cancelAt.set /\ cancelAt.pc = "synth_pull" /\ cancelAt.gpc = "g_tts"

\* C4: when the flag is set while the synthesis collaborator is generating
\* segment i, the collaborator is called for no later segment, the run goes on
\* to no later stage, and it ends with InterruptedError.
C4_CancelDuringSynthesis ==
    CancelledInTts
        => /\ \A k \in 1..Len(ttsLog) : ttsLog[k].idx <= cancelAt.gi
           /\ ~InMux
           /\ (pc = "done" => outcome = "InterruptedError")

\* C4 witness: the flag was set during the synthesis of the last of two
\* segments and the run ended with InterruptedError.
C4_Witness ==
    /\ CancelledInTts
    /\ Len(script) = 2
    /\ cancelAt.gi = 1
    /\ pc = "done"
    /\ outcome = "InterruptedError"

\* C5 as claimed: when the flag is set while the encoder subprocess is live,
\* the subprocess is sent terminate and the run ends with InterruptedError.
C5_CancelDuringEncoding ==
    (cancelAt.set /\ cancelAt.live /\ pc = "done")
        => (proc.terminated /\ outcome = "InterruptedError")

\* C6: at every check point a true flag makes the run raise InterruptedError
\* (nothing catches it and the loop does not go on), and when the encoder is
\* live terminate() has been issued before the error surfaces.
C6_CancelNeverSwallowed ==
    /\ [](outcome = "InterruptedError" /\ proc.live => proc.terminated)
    /\ [][/\ (cancel_flag /\ pc = "tr_check" /\ i < Len(segments))
               => (pc' = "done" /\ outcome' = "InterruptedError")
          /\ (cancel_flag /\ pc = "synth_item")
               => (pc' = "done" /\ outcome' = "InterruptedError")
          /\ (cancel_flag /\ pc = "enc_read" /\ proc'.lines # proc.lines)
               => (proc'.terminated /\ pc' = "enc_cancel" /\ outcome' = "none")
          /\ (pc = "enc_cancel")
               => (proc.terminated /\ pc' = "done" /\ outcome' = "InterruptedError")
         ]_vars

\* C6 witness: the flag was seen on a line of the live encoder, which was sent
\* terminate before the run ended with InterruptedError.
C6_Witness ==
    /\ pc = "done"
    /\ outcome = "InterruptedError"
    /\ proc.live
    /\ proc.terminated

EndedAs(kinds) ==
    /\ outcome \in kinds
    /\ nResults <= 1
    /\ (outcome = "result") <=> (nResults = 1 /\ lastEvent = "result")

RECURSIVE NonEmptyIdx(_)
\* the 0-based indices of the segments of scr whose text is not empty, in order
NonEmptyIdx(scr) ==
    IF scr = <<>> THEN <<>>
    ELSE LET front == NonEmptyIdx(SubSeq(scr, 1, Len(scr) - 1))
         IN  IF scr[Len(scr)].text = "" THEN front ELSE Append(front, Len(scr) - 1)

RECURSIVE PlacedInOrder(_, _)
\* the clips of the successful calls of log, each placed at the later of its
\* segment's start in ms and the end of the clip before it plus 50 ms
PlacedInOrder(log, scr) ==
    IF log = <<>> THEN <<>>
    ELSE LET front == PlacedInOrder(SubSeq(log, 1, Len(log) - 1), scr)
             call  == log[Len(log)]
             ms    == ToMs(scr[call.idx + 1].start)
         IN  IF ~call.ok THEN front
             ELSE IF front = <<>>
                  THEN <<[start_ms |-> ms, len |-> call.len]>>
                  ELSE Append(front,
                              [start_ms |-> Max(ms, front[Len(front)].start_ms
                                                      + front[Len(front)].len + 50),
                               len |-> call.len])

\* C10: whichever segments the synthesis collaborator fails on, no exception
\* escapes generate_audio_track_iter; the collaborator is still called for every
\* segment with a text, in script order; the clips of the calls that succeeded
\* are on the timeline in that order at their auto-shifted starts; export is
\* called on that timeline; and the driver does not stop before its result
\* event, which the wrapper returns.
C10_PartialFailureTolerance ==
    /\ gpc # "g_raised"
    /\ outcome = "none"
    /\ gpc \in {"g_result", "g_done"}
         => /\ [k \in 1..Len(ttsLog) |-> ttsLog[k].idx] = NonEmptyIdx(script)
            /\ timeline = PlacedInOrder(ttsLog, script)
            /\ exportCall.called
            /\ exportCall.nclips = Len(timeline)
    /\ gpc = "g_result" => item.kind = "result"
    /\ pc = "dub_done" \/ ENABLED NextDub
    /\ pc = "dub_done" => (gpc = "g_done" /\ result_path = "output_path")

\* C10 witness: of three segments the second failed; the first and the third
\* are on the timeline, the third shifted behind the first, and the wrapper
\* has returned the result.
C10_Witness ==
    /\ pc = "dub_done"
    /\ Len(script) = 3
    /\ Len(ttsLog) = 3
    /\ ttsLog[1].ok /\ ~ttsLog[2].ok /\ ttsLog[3].ok
    /\ Len(timeline) = 2
    /\ timeline[2].start_ms = timeline[1].start_ms + timeline[1].len + 50
    /\ outFile.written

(***************************************************************************)
(* Export of an empty timeline (checked under SpecTimeline)                *)
(***************************************************************************)
\* C11: an export of a timeline with zero clips and target_duration_ms = D
\* writes a file of exactly D ms of silence, for every D; with zero clips and
\* no target it writes no file.
C11_EmptyExport ==
    (exportCall.called /\ exportCall.nclips = 0) =>
        IF exportCall.target = None
        THEN ~exportCall.wrote
        ELSE /\ exportCall.wrote
             /\ outFile.written
             /\ outFile.duration = exportCall.target
             /\ outFile.overlays = <<>>

(***************************************************************************)
(* Properties of process_video's stages (checked under Spec)               *)
(***************************************************************************)
\* the translation loop of video_translator.py:134-168 has been left normally
TranslationDone ==
    pc \in {"srt", "synth_pull", "synth_item", "mux", "enc_read", "enc_cancel", "enc_wait"}
\* the four fields of a dubbing_script entry
EntryFields(e) == [start |-> e.start, end |-> e.end, text |-> e.text,
                   instruct |-> e.instruct]
\* the entry the translation ret of an input segment has to produce
EntryFor(ret) == [start |-> segments[ret.idx + 1].start, end |-> segments[ret.idx + 1].end,
                  text |-> ret.text, instruct |-> "neutral"]

\* C12: dubbing_script holds exactly one entry {start, end, text: translated,
\* instruct: "neutral"} per input segment whose translate call returned, in input
\* order, start and end copied from the segment; a segment whose translation
\* raised leaves no entry, and once the loop is complete translate has been
\* called for every segment whose text is non-empty after stripping.
C12_TranslationOutput ==
    /\ Len(dubbing_script) = Len(trRet)
    /\ \A k \in 1..Len(trRet) :
         k <= Len(dubbing_script) => EntryFields(dubbing_script[k]) = EntryFor(trRet[k])
    /\ \A k, l \in 1..Len(trRet) : k < l => trRet[k].idx < trRet[l].idx
    /\ TranslationDone =>
         trLog = {j \in 0..(Len(segments) - 1) : segments[j + 1].text # ""}
\* the loop is complete, the first segment's translation raised and the second
\* segment's translation returned
C12_Witness ==
    /\ TranslationDone
    /\ Len(segments) = 2
    /\ 0 \in trLog
    /\ Len(trRet) = 1
    /\ trRet[1].idx = 1
    /\ trRet[1].text = "translated"

\* C13: a non-zero exit code of the encoder, read after its stream has drained,
\* ends the run with RuntimeError and without a result event; the encoder is
\* spawned at most once per run; a result event is yielded only after the
\* encoder has exited with code 0.
C13_EncoderFailureFatal ==
    /\ proc.spawns <= 1
    /\ proc.returncode \notin {None, 0} =>
         /\ pc = "done"
         /\ outcome = "RuntimeError"
         /\ nResults = 0
         /\ lastEvent # "result"
    /\ nResults > 0 => (proc.returncode = 0 /\ ~proc.live)
\* the encoder wrote a line, closed its stream and exited with code 1
C13_Witness ==
    /\ proc.returncode = 1
    /\ proc.lines > 0
    /\ ~proc.terminated
    /\ outcome = "RuntimeError"

\* C14: a failure of the audio extraction ends the run with RuntimeError while
\* only the Extract stage has been entered: asr.transcribe, translator.translate
\* and the synthesis were never called and no encoder was spawned; a run that
\* has ended takes no further step.
C14_ExtractionFailureFatal ==
    [][/\ (pc = "extract" /\ pc' = "done") =>
            /\ outcome' = "RuntimeError"
            /\ stages' = <<"Extract">>
            /\ segments' = <<>>
            /\ trLog' = {}
            /\ gpc' = "g_none"
            /\ ttsLog' = <<>>
            /\ proc'.spawns = 0
            /\ nResults' = 0
       /\ pc # "done"]_vars
\* the run ended inside the extraction
C14_Witness ==
    /\ pc = "done"
    /\ stages = <<"Extract">>
    /\ outcome = "RuntimeError"
    /\ lastProg = Pct(5)

\* the stages in the order of video_translator.py:99-331
StageOrder == <<"Extract", "Transcribe", "Translate", "Synthesize", "Mux">>
\* the stages a complete run goes through
ExpectedStages ==
    IF dubbing_enabled THEN StageOrder
    ELSE <<"Extract", "Transcribe", "Translate", "Mux">>
IsPrefix(a, b) == Len(a) <= Len(b) /\ \A k \in 1..Len(a) : a[k] = b[k]
\* the stage the code at pc belongs to ("mux" lies between two stages)
StageAt(p) ==
    IF p = "extract" THEN "Extract"
    ELSE IF p = "asr" THEN "Transcribe"
    ELSE IF p \in {"tr_check", "tr_call", "srt"} THEN "Translate"
    ELSE IF p \in {"synth_pull", "synth_item"} THEN "Synthesize"
    ELSE IF p \in {"enc_read", "enc_cancel", "enc_wait"} THEN "Mux"
    ELSE "none"

\* C15: the stages are entered in the order Extract, Transcribe, Translate,
\* Synthesize (exactly when dubbing is enabled), Mux, none of them twice; a
\* stage is entered only after the previous one has finished, and at most one
\* stage is active: the code that runs, the live synthesis generator and the
\* live encoder all belong to the stage entered last.
C15_StageOrdering ==
    /\ IsPrefix(stages, ExpectedStages)
    /\ StageAt(pc) # "none" => stages[Len(stages)] = StageAt(pc)
    /\ (\E k \in 1..Len(stages) : stages[k] \in {"Synthesize", "Mux"}) =>
         (i = Len(segments) /\ pc \notin {"tr_check", "tr_call"})
    /\ (\E k \in 1..Len(stages) : stages[k] = "Mux") =>
         gpc = (IF dubbing_enabled THEN "g_done" ELSE "g_none")
    /\ gpc \in {"g_new", "g_loop", "g_yielded", "g_tts", "g_result"} =>
         stages[Len(stages)] = "Synthesize"
    /\ proc.live => stages[Len(stages)] = "Mux"
\* a complete run with dubbing went through all five stages
C15_Witness ==
    /\ pc = "done"
    /\ outcome = "result"
    /\ stages = StageOrder
    /\ Len(ttsLog) > 0

\* C16: with dubbing disabled the synthesis generator is never created and the
\* synthesis collaborator never called, the audio input of the encoder is the
\* extracted audio, and the final audio path of the result event is that path.
C16_DubbingDisabledPassthrough ==
    ~dubbing_enabled =>
        /\ gpc = "g_none"
        /\ ttsLog = <<>>
        /\ genEvents = <<>>
        /\ \A k \in 1..Len(stages) : stages[k] # "Synthesize"
        /\ proc.spawns > 0 => proc.audio_in = audio_path
        /\ resultPayload.yielded => resultPayload.final_audio_path = audio_path
\* a run without dubbing yielded its result event
C16_Witness ==
    /\ ~dubbing_enabled
    /\ outcome = "result"
    /\ resultPayload.yielded
    /\ proc.audio_in = audio_path

\* the sub-range of the progress scale each stage's events are mapped into
\* (video_translator.py:103, 116, 123-176, 184-217, 227-321)
StageRange(stage) ==
    IF stage = "Extract" THEN [lo |-> <<0, 100>>, hi |-> <<5, 100>>]
    ELSE IF stage = "Transcribe" THEN [lo |-> <<5, 100>>, hi |-> <<15, 100>>]
    ELSE IF stage = "Translate" THEN [lo |-> <<30, 100>>, hi |-> <<70, 100>>]
    ELSE IF stage = "Synthesize" THEN [lo |-> <<75, 100>>, hi |-> <<90, 100>>]
    ELSE [lo |-> <<90, 100>>, hi |-> <<99, 100>>]
InRange(f, r) == FracLeq(r.lo, f) /\ FracLeq(f, r.hi)
\* the stage whose code yielded the last progress event when the run is at p
\* (the event of line 184 is yielded by the synthesis block also without dubbing)
OwnerAt(p) ==
    IF p = "extract" THEN "Extract"
    ELSE IF p = "asr" THEN "Transcribe"
    ELSE IF p \in {"tr_check", "tr_call", "srt"} THEN "Translate"
    ELSE IF p \in {"synth_pull", "synth_item", "mux"} THEN "Synthesize"
    ELSE "Mux"
Stages == {StageOrder[k] : k \in 1..Len(StageOrder)}

\* C17: every progress fraction lies in [0,1]; the events of a stage lie in
\* that stage's sub-range; two different sub-ranges share at most an endpoint;
\* every event yielded while the encoder stream is read lies in [0.90, 0.99],
\* whatever out_time_us the encoder reports.
C17_ProgressSubRanges ==
    /\ FracLeq(<<0, 1>>, lastProg) /\ FracLeq(lastProg, <<1, 1>>)
    /\ (pc \notin {"created", "done"}) => InRange(lastProg, StageRange(OwnerAt(pc)))
    /\ \A a, b \in Stages :
         a # b => \/ FracLeq(StageRange(a).hi, StageRange(b).lo)
                  \/ FracLeq(StageRange(b).hi, StageRange(a).lo)
    /\ pc \in {"enc_read", "enc_cancel", "enc_wait"} =>
         (FracLeq(<<90, 100>>, lastProg) /\ FracLeq(lastProg, <<99, 100>>))
\* the encoder reported 5 s of output for a 2 s video and the event is 0.99
C17_Witness ==
    /\ pc = "enc_read"
    /\ video_duration = Sec(2, 1)
    /\ proc.last = 5000000
    /\ lastProg = <<99, 100>>

(***************************************************************************)
(* Properties of the synthesis driver and its wrapper (checked under       *)
(* SpecDub)                                                                *)
(***************************************************************************)
\* C18: every call of tts.generate made by generate_audio_track_iter passes the
\* default_speaker and default_language of the run, whatever speaker and
\* language the segment carries; the text and the instruct are the segment's.
C18_UniformVoice ==
    \A k \in 1..Len(ttsLog) :
        /\ ttsLog[k].call.speaker = default_speaker
        /\ ttsLog[k].call.language = default_language
        /\ ttsLog[k].call.text = script[ttsLog[k].idx + 1].text
        /\ ttsLog[k].call.instruct = script[ttsLog[k].idx + 1].instruct
\* two segments that carry another speaker and language were synthesized
C18_Witness ==
    /\ Len(ttsLog) = 2
    /\ \A k \in 1..2 :
         /\ script[ttsLog[k].idx + 1].speaker # default_speaker
         /\ script[ttsLog[k].idx + 1].language # default_language
         /\ ttsLog[k].call.speaker = "Uncle_Fu"

\* the arguments the callback has to see: one call per progress event, in order
RECURSIVE ProgressCalls(_)
ProgressCalls(evs) ==
    IF evs = <<>> THEN <<>>
    ELSE IF evs[1].kind = "progress"
         THEN <<CallbackArgs(evs[1])>> \o ProgressCalls(Tail(evs))
         ELSE ProgressCalls(Tail(evs))
\* the event in item is still to be handled by the wrapper's loop body
Unhandled == IF pc = "dub_item" THEN 1 ELSE 0
WrapperInv ==
    /\ cbLog = (IF progress_callback
                THEN ProgressCalls(SubSeq(genEvents, 1, Len(genEvents) - Unhandled))
                ELSE <<>>)
    /\ pc = "dub_done" =>
         /\ Len(genEvents) > 0
         /\ genEvents[Len(genEvents)].kind = "result"
         /\ result_path = genEvents[Len(genEvents)].path
         /\ result_path = wrapper_output_path

\* C19: generate_audio_track calls progress_callback, when one is given, once
\* per progress event of generate_audio_track_iter, in the same order and with
\* the same (current, total, message); it returns the path of the result
\* event; its own steps call no TTS and touch neither the timeline nor the file.
C19_WrapperDerivedFromStream ==
    /\ []WrapperInv
    /\ [][(pc \in {"dub_call", "dub_item", "dub_return"}) =>
            UNCHANGED <<timeline, addLog, outFile, exportCall, ttsLog>>]_vars
\* the wrapper returned after forwarding two progress events to the callback
C19_Witness ==
    /\ pc = "dub_done"
    /\ progress_callback
    /\ Len(cbLog) = 2
    /\ cbLog[2] = [cur |-> 1, total |-> 2, msg |-> <<2, 2>>]
    /\ result_path = wrapper_output_path

\* the events a run of generate_audio_track_iter over script has to yield
ExpectedEvents ==
    [k \in 1..(Len(script) + 1) |->
        IF k <= Len(script)
        THEN [kind |-> "progress", cur |-> k - 1, total |-> Len(script),
              msg |-> <<k, Len(script)>>, path |-> ""]
        ELSE [kind |-> "result", cur |-> 0, total |-> 0, msg |-> <<0, 0>>,
              path |-> wrapper_output_path]]

\* C20: over a script of n segments generate_audio_track_iter yields n progress
\* events with indices 0..n-1 in input order and total n, each before its
\* segment is processed and also for a segment that is skipped or fails, then
\* one result event, which is the last event; a segment with empty text is
\* never given to the TTS and never adds a clip to the timeline.
C20_SynthesisEventProtocol ==
    /\ IsPrefix(genEvents, ExpectedEvents)
    /\ gpc \in {"g_new", "g_loop"} => Len(genEvents) = gi
    /\ gpc \in {"g_yielded", "g_tts"} => Len(genEvents) = gi + 1
    /\ gpc \in {"g_result", "g_done"} => genEvents = ExpectedEvents
    /\ \A k \in 1..Len(ttsLog) :
         /\ ttsLog[k].idx + 1 <= Len(genEvents)
         /\ script[ttsLog[k].idx + 1].text # ""
    /\ Len(timeline) = Cardinality({k \in 1..Len(ttsLog) : ttsLog[k].ok})
\* a script of three segments is exhausted: the first has an empty text, the
\* second failed in the TTS, the third was placed
C20_Witness ==
    /\ gpc = "g_done"
    /\ Len(script) = 3
    /\ script[1].text = ""
    /\ Len(ttsLog) = 2
    /\ ~ttsLog[1].ok
    /\ ttsLog[2].ok
    /\ Len(genEvents) = 4
    /\ Len(timeline) = 1

(***************************************************************************)
(* Properties of the entry points (checked under SpecEntry)                *)
(***************************************************************************)
\* the input is malformed or names a file that does not exist
Malformed == raw.kind # "ok" \/ raw.video = "missing"

\* C21: whatever the input, no exception escapes an entry point to its host,
\* and an entry point given a malformed script or a missing file ends by
\* reporting a message.
C21_ValidationNeverCrashes ==
    /\ host # "crash"
    /\ (pc = "entry_done" /\ Malformed) => host = "message"

(***************************************************************************)
(* Placement and export rules of the timeline (checked under SpecTimeline) *)
(***************************************************************************)
\* the start add_segment has to record for clip k, given the conversion ms of
\* the intended start to milliseconds
PlacedAt(k, ms) ==
    IF k = 1 \/ ~addLog[k].auto_shift
    THEN ms
    ELSE Max(ms, timeline[k - 1].start_ms + timeline[k - 1].len + 50)
\* an add leaves the clips placed before it as they are
PlacedClipsKept ==
    [][/\ Len(timeline') >= Len(timeline)
       /\ \A k \in 1..Len(timeline) : timeline'[k] = timeline[k]]_vars

\* C22: add_segment records round(intended_start * 1000) when there is no
\* previous clip or auto_shift is False, and otherwise the larger of that and
\* previous start + previous duration + 50; a clip is never placed earlier
\* than its rounded intended start; clips placed before are left unchanged.
C22_PlacementRounded ==
    /\ [](\A k \in 1..Len(timeline) :
            /\ timeline[k].start_ms = PlacedAt(k, RoundMs(addLog[k].start_time))
            /\ timeline[k].start_ms >= RoundMs(addLog[k].start_time))
    /\ PlacedClipsKept
\* C22 as the code has it: the intended start is converted by truncation,
\* int(intended_start * 1000); the rest of the rule is as stated.
C22_PlacementTruncated ==
    /\ [](\A k \in 1..Len(timeline) :
            /\ timeline[k].start_ms
                 = PlacedAt(k, (addLog[k].start_time[1] * 1000) \div addLog[k].start_time[2])
            /\ timeline[k].start_ms * addLog[k].start_time[2]
                 > (addLog[k].start_time[1] * 1000) - addLog[k].start_time[2])
    /\ PlacedClipsKept
\* a clip intended at 0.0015 s sits at 1 ms, and a clip added after it with
\* auto_shift was moved behind it
C22_Witness ==
    /\ Len(timeline) = 2
    /\ addLog[1].start_time = Sec(3, 2000)
    /\ timeline[1].start_ms = 1
    /\ timeline[1].len = 2000
    /\ addLog[2].auto_shift
    /\ timeline[2].start_ms = 2051

\* the clips that were on the timeline at the last call of export
Exported == SubSeq(timeline, 1, exportCall.nclips)
RECURSIVE ExpectedPieces(_, _)
\* in placement order: nothing for a clip that starts at or after F, else the
\* first min(duration, F - start) ms of the clip at its start
ExpectedPieces(segs, F) ==
    IF segs = <<>> THEN <<>>
    ELSE LET s == segs[1]
         IN  (IF s.start_ms >= F THEN <<>>
              ELSE <<[pos |-> s.start_ms, len |-> Min(s.len, F - s.start_ms)]>>)
             \o ExpectedPieces(Tail(segs), F)

\* C23: in an export with final duration F a clip that starts at or after F
\* contributes nothing and every other clip contributes its first
\* min(duration, F - start) ms at its start; no overlaid piece extends past F
\* and the base track still has length F after the overlays.
C23_SkipCropRule ==
    (exportCall.called /\ exportCall.nclips > 0) =>
        /\ outFile.written
        /\ outFile.overlays = ExpectedPieces(Exported, outFile.final)
        /\ \A k \in 1..Len(outFile.overlays) :
             outFile.overlays[k].pos + outFile.overlays[k].len <= outFile.final
        /\ outFile.composed = outFile.final
        /\ outFile.duration = outFile.final
\* an export to 2000 ms of two clips: the first, 3000 ms long at 0, is cropped
\* to 2000 ms; the second, shifted to 3050 ms, is skipped
C23_Witness ==
    /\ exportCall.called
    /\ exportCall.nclips = 2
    /\ exportCall.target = 2000
    /\ timeline[1] = [start_ms |-> 0, len |-> 3000]
    /\ timeline[2].start_ms = 3050
    /\ outFile.overlays = <<[pos |-> 0, len |-> 2000]>>

\* the largest end of a clip that was on the timeline at the last export
MaxEnd ==
    LET ends == {Exported[k].start_ms + Exported[k].len : k \in 1..Len(Exported)}
    IN  CHOOSE m \in ends : \A e \in ends : m >= e
\* the last call of export had clips and no target duration
ContentExport == exportCall.called /\ exportCall.nclips > 0 /\ exportCall.target = None
\* the clip as one whole overlaid piece
Whole(s) == [pos |-> s.start_ms, len |-> s.len]
RECURSIVE WholePieces(_, _)
\* every clip whole, in placement order, but for the clips in skip
WholePieces(segs, skip) ==
    IF segs = <<>> THEN <<>>
    ELSE (IF segs[1] \in skip THEN <<>> ELSE <<Whole(segs[1])>>)
         \o WholePieces(Tail(segs), skip)

\* C24: an export without target duration of a timeline with at least one clip
\* gives a file as long as the largest clip end, or 1000 ms if that is zero,
\* and overlays every clip whole: none is skipped, none is cropped.
C24_ContentLengthExport ==
    ContentExport =>
        /\ outFile.duration = (IF MaxEnd = 0 THEN 1000 ELSE MaxEnd)
        /\ outFile.overlays = WholePieces(Exported, {})
\* C24 as the code has it: the duration is as stated and no clip is cropped;
\* the only clips skipped are clips of duration zero that start at the very
\* end of the content.
C24_ContentLengthExportNonEmpty ==
    ContentExport =>
        /\ outFile.duration = (IF MaxEnd = 0 THEN 1000 ELSE MaxEnd)
        /\ outFile.overlays
             = WholePieces(Exported,
                           {Exported[k] : k \in {j \in 1..Len(Exported) :
                                /\ Exported[j].len = 0
                                /\ Exported[j].start_ms = MaxEnd
                                /\ MaxEnd > 0}})
\* two clips were exported without target: 2000 ms at 0 and an empty clip at
\* 2050 ms; the file is 2050 ms long and holds the first clip only
C24_Witness ==
    /\ ContentExport
    /\ exportCall.nclips = 2
    /\ Exported[1] = [start_ms |-> 0, len |-> 2000]
    /\ Exported[2] = [start_ms |-> 2050, len |-> 0]
    /\ outFile.duration = 2050
    /\ outFile.overlays = <<[pos |-> 0, len |-> 2000]>>

\* every add so far used auto_shift=True
AllAutoShift == \A k \in 1..Len(addLog) : addLog[k].auto_shift
\* some clip was added after a clip with a later intended start
OutOfOrder ==
    \E k, l \in 1..Len(addLog) :
        k < l /\ ~SecLeq(addLog[k].start_time, addLog[l].start_time)
\* the intervals [start, start + duration) of two placed clips share a point
Overlap(a, b) ==
    /\ a.len > 0 /\ b.len > 0
    /\ a.start_ms < b.start_ms + b.len
    /\ b.start_ms < a.start_ms + a.len

RECURSIVE Val(_)
\* the number a sequence of decimal digits denotes
Val(ds) == IF ds = <<>> THEN 0 ELSE 10 * Val(SubSeq(ds, 1, Len(ds) - 1)) + ds[Len(ds)]
\* f is HH:MM:SS,mmm for the time t
Renders(f, t) ==
    /\ Len(f.hh) >= 2 /\ Len(f.mm) = 2 /\ Len(f.ss) = 2 /\ Len(f.mmm) = 3
    /\ Val(f.mm) < 60
    /\ Val(f.ss) < 60
    /\ Val(f.mmm) < 1000
    /\ Val(f.hh) * 3600 + Val(f.mm) * 60 + Val(f.ss) = t[1] \div t[2]
    /\ Val(f.mmm) * t[2] <= (t[1] % t[2]) * 1000
    /\ (t[1] % t[2]) * 1000 < (Val(f.mmm) + 1) * t[2]

\* C26: _generate_srt writes one block per segment of its list, numbered
\* 1..m in list order, and each timestamp is HH:MM:SS,mmm with MM < 60,
\* SS < 60, mmm < 1000, HH*3600 + MM*60 + SS the whole seconds of the time and
\* mmm the whole milliseconds of its fractional part.
C26_SrtGeneration ==
    /\ Len(srtOut) <= Len(srtIn)
    /\ pc = "srt_done" => Len(srtOut) = Len(srtIn)
    /\ \A k \in 1..Len(srtOut) :
         /\ srtOut[k].index = k
         /\ Renders(srtOut[k].start, srtIn[k].start)
         /\ Renders(srtOut[k].end, srtIn[k].end)
\* two blocks were written; the second runs from 3661.5 s, 01:01:01,500, to
\* 100 hours, 100:00:00,000
C26_Witness ==
    /\ pc = "srt_done"
    /\ Len(srtOut) = 2
    /\ srtOut[2].index = 2
    /\ srtIn[2].start = Sec(7323, 2)
    /\ srtOut[2].start = [hh |-> <<0, 1>>, mm |-> <<0, 1>>, ss |-> <<0, 1>>,
                          mmm |-> <<5, 0, 0>>]
    /\ srtOut[2].end = [hh |-> <<1, 0, 0>>, mm |-> <<0, 0>>, ss |-> <<0, 0>>,
                        mmm |-> <<0, 0, 0>>]
    /\ srtOut[1].start.mmm = <<0, 0, 1>>

(***************************************************************************)
(* Properties of whole process_video runs (checked under Spec)             *)
(***************************************************************************)
\* the duration of the source video in whole milliseconds
VideoMs == (video_duration[1] * 1000) \div video_duration[2]

\* C27: in a run with dubbing enabled that has spawned the encoder, the
\* synthesized track was exported with the video's duration in milliseconds
\* as target and the file handed to the encoder is exactly that long, for any
\* number of translated segments and any pattern of synthesis failures.
C27_DubbedTrackMatchesVideo ==
    (dubbing_enabled /\ proc.spawns > 0) =>
        /\ proc.audio_in = dubbed_path
        /\ exportCall.called
        /\ exportCall.target = VideoMs
        /\ outFile.written
        /\ outFile.duration = VideoMs

\* C28: once the cancel flag is true in a started run, no step of the run
\* starts a further stage: the stage history does not grow, so the synthesis
\* driver is not invoked and no encoder subprocess is spawned.
C28_AbortAtStageBoundaries ==
    [][(cancel_flag /\ pc # "created")
          => (stages' = stages /\ proc'.spawns = proc.spawns)]_vars

\* C29: a run during which cancel_task() was called, at any moment between
\* the call of process_video and the run's terminal event, does not end with
\* a result event.
C29_CancelNeverLost ==
    (cancelAt.set /\ pc = "done") => (outcome # "result" /\ nResults = 0)

(***************************************************************************)
(* Properties of the result of a synthesis call (checked under SpecDub)    *)
(***************************************************************************)
\* C30: whenever the generator has yielded the result event, and whenever the
\* wrapper has returned its path, export has written an audio file during this
\* call, for every script and every total_duration.
C30_ResultImpliesArtifact ==
    (item.kind = "result" \/ (pc = "dub_done" /\ result_path # ""))
        => (exportCall.called /\ exportCall.wrote /\ outFile.written)

(***************************************************************************)
(* Frame of export on the timeline (checked under SpecTimeline)            *)
(***************************************************************************)
\* a step that is not an add_segment call: a call of export
ExportStep == addLog' = addLog /\ exportCall'.called
\* the export of this step repeats the previous one: same target, and no clip
\* was added since
SameExport ==
    /\ exportCall.called
    /\ exportCall'.target = exportCall.target
    /\ exportCall.nclips = Len(timeline)

\* C31: export leaves the placed clips (starts, durations, order) as they
\* are, also when it skips or crops clips; an export repeated with the same
\* arguments writes the same output; and a clip added later with auto_shift
\* is placed at least 50 ms after the whole, uncropped previous clip.
C31_ExportReadOnly ==
    /\ [](/\ Len(timeline) = Len(addLog)
          /\ \A k \in 1..Len(timeline) :
               /\ timeline[k].len = addLog[k].len
               /\ (k > 1 /\ addLog[k].auto_shift)
                    => timeline[k].start_ms
                         >= timeline[k - 1].start_ms + addLog[k - 1].len + MIN_GAP_MS)
    /\ [][ExportStep
            => /\ timeline' = timeline
               /\ SameExport => /\ exportCall'.wrote = exportCall.wrote
                                /\ exportCall'.wrote => outFile' = outFile]_vars

\* C31 witness: a 3000 ms clip at 0 was exported with target 2000 and cropped
\* to 2000 ms in the output; the clip then added at 0 s with auto_shift sits
\* at 3050 ms, behind the whole first clip.
C31_Witness ==
    /\ Len(timeline) = 2
    /\ exportCall.called
    /\ exportCall.nclips = 1
    /\ exportCall.target = 2000
    /\ outFile.overlays = <<[pos |-> 0, len |-> 2000]>>
    /\ timeline[1] = [start_ms |-> 0, len |-> 3000]
    /\ addLog[2].auto_shift
    /\ timeline[2].start_ms = 3050

(***************************************************************************)
(* Properties of app.translate_video (checked under SpecUi)                *)
(***************************************************************************)
\* no step of the run driven by translate_video has raised
NothingRaised == outcome \notin {"RuntimeError", "Exception", "InterruptedError"}

\* C32: when translate_video was given a video and nothing in the run it
\* drives fails, it returns with the success status and the artifacts of the
\* run's result event, however many progress events the run yields before it.
C32_UiDeliversResult ==
    (pc = "ui_done" /\ raw.video = "present" /\ NothingRaised)
        => (host = "success" /\ resultPayload.yielded)

=============================================================================
